---- MODULE Spec2Model ----
(***************************************************************************)
(* Model of converters/base.py: the Converter base class of nbconvert.     *)
(*                                                                         *)
(* Text is a sequence of tokens (strings); the token NL is the newline     *)
(* character, every other token stands for a run of characters without a   *)
(* newline.  A list of lines is a sequence of texts.  A path is a text.    *)
(***************************************************************************)
EXTENDS Naturals, Sequences, FiniteSets, TLC

VARIABLES
    phase,            \* "new" (before __init__), "live", "dead" (after __del__)
    fmt,              \* the concrete Converter subclass in use
    infile,           \* the input file: [ok |-> well formed?, nb |-> document]
    preDir,           \* the asset directory as found by __init__ (history)
    hasnb,            \* hasattr(self, 'nb')
    nb,               \* self.nb
    figures_counter,  \* self.figures_counter
    output,           \* self.output: [type, text]
    dirExists,        \* os.path.isdir(self.files_dir)
    files,            \* the asset directory: file name -> content
    outfile,          \* the output file: [exists, text]
    op,               \* the last operation called and its argument (history)
    err,              \* the exception the last operation raised, or "none"
    ret,              \* the value the last operation returned (a text)
    buffer,           \* the lines main_body returned to the last convert
    trace,            \* the calls the last operation made, in order (history)
    extracted,        \* the _new_figure calls of the session (history)
    rerun             \* the last call against the same call just before it

vars == <<phase, fmt, infile, preDir, hasnb, nb, figures_counter, output,
          dirExists, files, outfile, op, err, ret, buffer, trace, extracted,
          rerun>>

(***************************************************************************)
(* Bounds of the model.                                                    *)
(***************************************************************************)
MaxCells == 2      \* cells of a document
MaxFigures == 2    \* cap on the figure counter

(***************************************************************************)
(* Text: str.join and str.split('\n').                                     *)
(***************************************************************************)
NL == "\n"

RECURSIVE Join(_, _)
Join(sep, strs) ==
    IF strs = <<>> THEN <<>>
    ELSE IF Len(strs) = 1 THEN strs[1]
    ELSE strs[1] \o sep \o Join(sep, Tail(strs))

RECURSIVE SplitNL(_)
SplitNL(t) ==
    IF \A i \in 1..Len(t) : t[i] # NL THEN <<t>>
    ELSE LET k == CHOOSE i \in 1..Len(t) :
                      t[i] = NL /\ \A j \in 1..(i-1) : t[j] # NL
         IN  <<SubSeq(t, 1, k-1)>> \o SplitNL(SubSeq(t, k+1, Len(t)))

\* '%02i' % n
DigitChars == <<"0", "1", "2", "3", "4", "5", "6", "7", "8", "9">>

RECURSIVE Digits(_)
Digits(n) ==
    IF n < 10 THEN <<DigitChars[n + 1]>>
    ELSE Digits(n \div 10) \o <<DigitChars[(n % 10) + 1]>>

Pad2(n) == IF n < 10 THEN <<"0">> \o Digits(n) ELSE Digits(n)

\* str.decode('base64') on the payloads of the model; an ill-padded payload
\* raises binascii.Error
Base64Table == [p \in {"aGk=", "eA=="} |-> IF p = "aGk=" THEN <<"hi">> ELSE <<"x">>]
Base64Valid(data) == Len(data) = 1 /\ data[1] \in DOMAIN Base64Table
Base64Decode(data) == Base64Table[data[1]]

(***************************************************************************)
(* Paths derived from the input file name by __init__.                     *)
(***************************************************************************)
infile_root == "nb"
files_dir == <<infile_root \o "_files", "/">>
FigName(counter, f) == <<infile_root, "_fig_">> \o Pad2(counter) \o <<".", f>>

(***************************************************************************)
(* The document: cells and outputs are nodes.  An output's data is its     *)
(* mapping as a sequence of [key, val] in the order output.keys() yields.  *)
(***************************************************************************)
KV(key, val) == [key |-> key, val |-> val]

Cell(type, source, outputs) ==
    [kind |-> "cell", type |-> type, source |-> source, outputs |-> outputs,
     data |-> <<KV("cell_type", <<type>>), KV("source", source)>>]

Output(type, data) ==
    [kind |-> "output", type |-> type, source |-> <<>>,
     outputs |-> <<>>, data |-> data]

HasKey(node, key) == \E i \in 1..Len(node.data) : node.data[i].key = key
GetKey(node, key) ==
    node.data[CHOOSE i \in 1..Len(node.data) : node.data[i].key = key].val

(***************************************************************************)
(* The environment a call runs in and changes: the figure counter, the     *)
(* asset directory, the exception raised so far, the calls made, and what  *)
(* the file system does to the nfig-th figure file of the call (fault).    *)
(***************************************************************************)
Ev(ev, name, arg) == [ev |-> ev, name |-> name, arg |-> arg]
Log(e, ev) == [e EXCEPT !.trace = Append(@, ev)]
Raise(e, x) == [e EXCEPT !.err = x]
Res(e, val) == [e |-> e, val |-> val]

\* lines.extend(r): the lines so far, then those the call r returned
Extend(lines, r) == Res(r.e, lines \o r.val)

\* the fault hits the first figure file a call opens: open() fails, or the
\* file is created and write() fails
NoFault == [at |-> 0, kind |-> "none"]
Faults == {NoFault, [at |-> 1, kind |-> "open"], [at |-> 1, kind |-> "write"]}

ImageTags == {"png", "svg", "jpg", "pdf"}
BinaryTags == {"png", "jpg", "pdf"}

\* history: a _new_figure call, whether it created its file (made) and
\* whether it wrote all of it (ok)
Fig(e, path, made, ok) ==
    [e EXCEPT !.fignames = Append(@, [path |-> path, made |-> made, ok |-> ok])]

\* _new_figure without line 173: the counter is left as it was
_new_figure_no_incr(data, f, e) ==
    LET figname == FigName(e.fc, f)
        fullname == files_dir \o figname
        n == e.nfig + 1
        e1 == [Log(e, Ev("_new_figure", f, fullname)) EXCEPT !.nfig = n]
        bytes == IF f \in BinaryTags THEN Base64Decode(data) ELSE data
    IN  IF f \in BinaryTags /\ ~Base64Valid(data)
          THEN Res(Raise(Fig(e1, fullname, FALSE, FALSE), "binascii.Error"), <<>>)
        ELSE IF e.fault.at = n /\ e.fault.kind = "open"
          THEN Res(Raise(Fig(e1, fullname, FALSE, FALSE), "IOError"), <<>>)
        ELSE IF e.fault.at = n /\ e.fault.kind = "write"
          THEN Res(Raise([Fig(e1, fullname, TRUE, FALSE) EXCEPT
                             !.files = (fullname :> <<>>) @@ @],
                         "IOError"), <<>>)
        ELSE Res([Fig(e1, fullname, TRUE, TRUE) EXCEPT
                     !.files = (fullname :> bytes) @@ @], fullname)

\* Converter._new_figure
_new_figure(data, f, e) ==
    LET figname == FigName(e.fc, f)
        fullname == files_dir \o figname
        n == e.nfig + 1
        e1 == [Log(e, Ev("_new_figure", f, fullname)) EXCEPT
                  !.fc = @ + 1, !.nfig = n]
        bytes == IF f \in BinaryTags THEN Base64Decode(data) ELSE data
    IN  IF f \in BinaryTags /\ ~Base64Valid(data)
          THEN Res(Raise(Fig(e1, fullname, FALSE, FALSE), "binascii.Error"), <<>>)
        ELSE IF e.fault.at = n /\ e.fault.kind = "open"
          THEN Res(Raise(Fig(e1, fullname, FALSE, FALSE), "IOError"), <<>>)
        ELSE IF e.fault.at = n /\ e.fault.kind = "write"
          THEN Res(Raise([Fig(e1, fullname, TRUE, FALSE) EXCEPT
                             !.files = (fullname :> <<>>) @@ @],
                         "IOError"), <<>>)
        ELSE Res([Fig(e1, fullname, TRUE, TRUE) EXCEPT
                     !.files = (fullname :> bytes) @@ @], fullname)

(***************************************************************************)
(* The class namespace: the attributes of Converter that the dispatchers   *)
(* can name, and those a concrete format F adds or overrides.              *)
(***************************************************************************)
AbstractNames ==
    {"render_heading", "render_code", "render_markdown", "render_raw",
     "render_pyout", "render_pyerr", "_img_lines", "_unknown_lines",
     "render_display_format_text", "render_display_format_html",
     "render_display_format_latex", "render_display_format_json",
     "render_display_format_javascript"}

BaseAttrs ==
    AbstractNames \cup
    {"render_display_data", "render_unknown", "render_unknown_display",
     "render_stream"}

Attrs(F) == BaseAttrs \cup F.defines

getattr(F, name, default) == IF name \in Attrs(F) THEN name ELSE default

\* Converter.dispatch
dispatch(F, cell_type) ==
    getattr(F, "render_" \o cell_type, "render_unknown")

\* Converter.dispatch_display_format
dispatch_display_format(F, format) ==
    getattr(F, "render_display_format_" \o format, "render_unknown_display")

\* pprint.pformat of a node
pformat(node) == <<"pformat(", node.type, ")">>

(***************************************************************************)
(* The renderers a concrete format defines.                                *)
(***************************************************************************)
RECURSIVE CallMethod(_, _, _, _)

\* _img_lines, _<fmt>_lines, _unknown_lines of a concrete format
ConcreteLines(name, text) == <<<<name, ":">> \o text>>

\* a bound method taking a text (a path, a pformat string)
CallLines(F, name, text, e) ==
    LET e1 == Log(e, Ev("call", name, text))
    IN  IF name \in F.defines THEN Res(e1, ConcreteLines(name, text))
        ELSE Res(Raise(e1, "NotImplementedError"), <<>>)

\* render_code of a concrete format: the source, then every output through
\* dispatch(output.output_type)
RECURSIVE render_outputs(_, _, _, _)
render_outputs(F, outputs, i, acc) ==
    IF i > Len(outputs) \/ acc.e.err # "none" THEN acc
    ELSE render_outputs(F, outputs, i + 1,
             Extend(acc.val, CallMethod(F, dispatch(F, outputs[i].type),
                                        outputs[i], acc.e)))

render_code(F, cell, e) ==
    IF cell.kind # "cell" THEN Res(Raise(e, "AttributeError"), <<>>)
    ELSE render_outputs(F, cell.outputs, 1, Res(e, <<cell.source>>))

\* render_heading, render_markdown, render_raw of a concrete format
render_source(F, cell, e) ==
    IF cell.kind # "cell" THEN Res(Raise(e, "AttributeError"), <<>>)
    ELSE Res(e, <<cell.source>>)

\* render_display_format_<tag>, render_pyout, render_pyerr of a concrete
\* format: the payload under the key the renderer is for
render_payload(F, key, outp, e) ==
    IF ~HasKey(outp, key) THEN Res(Raise(e, "AttributeError"), <<>>)
    ELSE Res(e, <<GetKey(outp, key)>>)

PayloadKey ==
    [n \in {"render_display_format_text", "render_display_format_html",
            "render_display_format_latex", "render_display_format_json",
            "render_display_format_javascript", "render_pyout",
            "render_pyerr"} |->
        CASE n = "render_display_format_text" -> "text"
          [] n = "render_display_format_html" -> "html"
          [] n = "render_display_format_latex" -> "latex"
          [] n = "render_display_format_json" -> "json"
          [] n = "render_display_format_javascript" -> "javascript"
          [] n = "render_pyout" -> "text"
          [] n = "render_pyerr" -> "traceback"]

Concrete(F, name, node, e) ==
    IF name = "render_code" THEN render_code(F, node, e)
    ELSE IF name \in {"render_heading", "render_markdown", "render_raw"}
      THEN render_source(F, node, e)
    ELSE IF name \in DOMAIN PayloadKey
      THEN render_payload(F, PayloadKey[name], node, e)
    ELSE Res(Raise(e, "TypeError"), <<>>)

(***************************************************************************)
(* The renderers of the base class.                                        *)
(***************************************************************************)
\* Converter.render_unknown
render_unknown(F, cell, e) ==
    LET data == pformat(cell)
    IN  IF ~HasKey(cell, "cell_type")
          THEN Res(Raise(e, "AttributeError"), <<>>)
        ELSE CallLines(F, "_unknown_lines", data,
                       Log(e, Ev("warning", "Unknown cell",
                                 GetKey(cell, "cell_type"))))

\* Converter.render_unknown_display(self, output, type)
render_unknown_display(F, outp, type, e) ==
    LET data == pformat(outp)
    IN  IF ~HasKey(outp, "output_type")
          THEN Res(Raise(e, "AttributeError"), <<>>)
        ELSE CallLines(F, "_unknown_lines", data,
                       Log(e, Ev("warning", "Unknown output",
                                 GetKey(outp, "output_type"))))

\* the body of the loop of Converter.render_display_data, for one key
render_display_key(F, outp, key, e) ==
    IF key \in ImageTags
      THEN LET img == _new_figure(GetKey(outp, key), key, e)
               lines_fun == getattr(F, "_" \o key \o "_lines", "_img_lines")
           IN  IF img.e.err # "none" THEN Res(img.e, <<>>)
               ELSE CallLines(F, lines_fun, img.val, img.e)
    ELSE IF key # "output_type"
      THEN LET conv_fn == dispatch_display_format(F, key)
           IN  CallMethod(F, conv_fn, outp,
                          Log(e, Ev("dispatch_display_format", key, <<>>)))
    ELSE Res(e, <<>>)

\* Converter.render_display_data
RECURSIVE render_display_loop(_, _, _, _)
render_display_loop(F, outp, i, acc) ==
    IF i > Len(outp.data) \/ acc.e.err # "none" THEN acc
    ELSE render_display_loop(F, outp, i + 1,
             Extend(acc.val, render_display_key(F, outp, outp.data[i].key, acc.e)))

render_display_data(F, outp, e) == render_display_loop(F, outp, 1, Res(e, <<>>))

\* Converter.render_stream
render_stream(F, outp, e) ==
    CallMethod(F, "render_display_format_text", outp, e)

\* the parameters a method takes besides self
Arity(name) == IF name = "render_unknown_display" THEN 2 ELSE 1

\* conv_fn(node): the call of a bound method with one argument
CallMethod(F, name, node, e) ==
    LET e1 == Log(e, Ev("call", name, <<node.type>>))
    IN  IF Arity(name) # 1 THEN Res(Raise(e1, "TypeError"), <<>>)
        ELSE IF name \in F.defines THEN Concrete(F, name, node, e1)
        ELSE IF name = "render_display_data" THEN render_display_data(F, node, e1)
        ELSE IF name = "render_unknown" THEN render_unknown(F, node, e1)
        ELSE IF name = "render_stream" THEN render_stream(F, node, e1)
        ELSE IF name = "render_unknown_display"
          THEN render_unknown_display(F, node, <<>>, e1)
        ELSE Res(Raise(e1, "NotImplementedError"), <<>>)

(***************************************************************************)
(* The document assembler.                                                 *)
(***************************************************************************)
\* converters.utils.remove_fake_files_url: strips the fake-files marker from
\* the cell's source, in place
RECURSIVE StripFake(_)
StripFake(t) ==
    IF t = <<>> THEN <<>>
    ELSE IF Head(t) = "files/" THEN StripFake(Tail(t))
    ELSE <<Head(t)>> \o StripFake(Tail(t))

remove_fake_files_url(cell) ==
    [cell EXCEPT !.source = StripFake(@),
                 !.data = <<KV("cell_type", <<cell.type>>),
                            KV("source", StripFake(cell.source))>>]

\* history: the lines a cell's renderer returned
RECURSIVE LogLines(_, _, _)
LogLines(e, type, lines) ==
    IF lines = <<>> \/ e.err # "none" THEN e
    ELSE LogLines(Log(e, Ev("line", type, Head(lines))), type, Tail(lines))

\* '\n'.join(conv_fn(cell)), r being what conv_fn(cell) returned
JoinCell(type, r) == Res(LogLines(r.e, type, r.val), Join(<<NL>>, r.val))

\* main_body's loop body with lines 120-123 reordered: the cell is rendered
\* before remove_fake_files_url has rewritten it
main_body_cell_late_strip(F, w, i, e) ==
    LET cell == e.doc[w][i]
        conv_fn == dispatch(F, cell.type)
        cell1 == IF cell.type \in {"markdown", "raw"}
                   THEN remove_fake_files_url(cell) ELSE cell
        e1 == [Log(e, Ev("cell", cell.type, <<>>)) EXCEPT !.doc[w][i] = cell1]
    IN  JoinCell(cell.type, CallMethod(F, conv_fn, cell, e1))

\* the body of the loops of Converter.main_body, for cell i of worksheet w
main_body_cell(F, w, i, e) ==
    LET cell == e.doc[w][i]
        conv_fn == dispatch(F, cell.type)
        cell1 == IF cell.type \in {"markdown", "raw"}
                   THEN remove_fake_files_url(cell) ELSE cell
        e1 == [Log(e, Ev("cell", cell.type, <<>>)) EXCEPT !.doc[w][i] = cell1]
    IN  JoinCell(cell.type, CallMethod(F, conv_fn, cell1, e1))

\* converted_cells.append(r)
AppendCell(converted_cells, r) == Res(r.e, Append(converted_cells, r.val))

\* the loops of Converter.main_body; acc holds converted_cells
RECURSIVE main_body_loop(_, _, _, _)
main_body_loop(F, w, i, acc) ==
    IF w > Len(acc.e.doc) \/ acc.e.err # "none" THEN acc
    ELSE IF i > Len(acc.e.doc[w]) THEN main_body_loop(F, w + 1, 1, acc)
    ELSE main_body_loop(F, w, i + 1,
             AppendCell(acc.val, main_body_cell(F, w, i, acc.e)))

\* line 124 without its split('\n'): the joined cells as one element
cell_lines_unsplit(cell_separator, r) ==
    IF r.e.err # "none" THEN Res(r.e, <<>>)
    ELSE Res(r.e, <<Join(cell_separator, r.val)>>)

\* cell_separator.join(converted_cells).split('\n'), r holding converted_cells
cell_lines(cell_separator, r) ==
    IF r.e.err # "none" THEN Res(r.e, <<>>)
    ELSE Res(r.e, SplitNL(Join(cell_separator, r.val)))

\* Converter.main_body
main_body(F, cell_separator, e) ==
    IF ~e.hasnb THEN Res(Raise(e, "AttributeError"), <<>>)
    ELSE cell_lines(cell_separator, main_body_loop(F, 1, 1, Res(e, <<>>)))

\* Converter.optional_header, Converter.optional_footer and their overrides
optional_header(F) == F.header
optional_footer(F) == F.footer

\* header, body and footer joined; a format may override convert and return
\* a byte string
assemble(F, r) ==
    LET lines == optional_header(F) \o r.val \o optional_footer(F)
    IN  IF r.e.err # "none"
          THEN Res(r.e, [type |-> "none", text |-> <<>>, body |-> <<>>])
        ELSE Res(r.e, [type |-> F.convert_type, text |-> Join(<<NL>>, lines),
                       body |-> r.val])

\* Converter.convert
convert(F, cell_separator, e) ==
    assemble(F, main_body(F, cell_separator, Log(e, Ev("call", "convert", <<>>))))

(***************************************************************************)
(* The conversion session.                                                 *)
(***************************************************************************)
\* Converter.read
read(inf, e) ==
    LET e1 == Log(e, Ev("call", "read", <<>>))
    IN  IF inf.ok THEN [e1 EXCEPT !.doc = inf.nb, !.hasnb = TRUE]
        ELSE Raise(e1, "ValueError")

\* Converter.save with the default outfile and encoding; io.open creates or
\* truncates the file, and f.write takes unicode only
OutPath(F) == <<"/", infile_root, ".", F.extension>>

save(F, sfault, e) ==
    LET e1 == Log(e, Ev("call", "save", OutPath(F)))
    IN  IF sfault = "open" THEN Res(Raise(e1, "IOError"), <<>>)
        ELSE IF e.output.type # "unicode"
          THEN Res(Raise([e1 EXCEPT !.outfile = [exists |-> TRUE, text |-> <<>>]],
                         "TypeError"), <<>>)
        ELSE Res([e1 EXCEPT !.outfile = [exists |-> TRUE, text |-> e.output.text]],
                 OutPath(F))

\* self.output = c
set_output(c) ==
    [c.e EXCEPT !.output = [type |-> c.val.type, text |-> c.val.text]]

\* render that saves whatever convert left behind
render_save_always(F, sfault, c) == save(F, sfault, set_output(c))

\* Converter.render from the assignment on, c being what convert returned
render_save(F, sfault, c) ==
    IF c.e.err # "none" THEN Res(c.e, <<>>)
    ELSE IF c.val.type # "unicode"
      THEN Res(Raise(set_output(c), "AssertionError"), <<>>)
    ELSE save(F, sfault, set_output(c))

\* Converter.render after the read
render_convert(F, sfault, e) ==
    IF e.err # "none" THEN Res(e, <<>>)
    ELSE render_save(F, sfault, convert(F, <<NL>>, e))

\* render without the hasattr test of line 129
render_read_always(inf, e) == read(inf, e)

\* Converter.render: its read
render_read(inf, e) == IF ~e.hasnb THEN read(inf, e) ELSE e

\* Converter.render
render(F, inf, sfault, e) == render_convert(F, sfault, render_read(inf, e))

\* __del__ without the rmdir of line 80
del_isdir_keep(isdir, listdir) == isdir

\* Converter.__del__: whether the asset directory is there afterwards
del_isdir(isdir, listdir) == IF isdir /\ listdir = {} THEN FALSE ELSE isdir

\* Converter.__init__: whether the asset directory is there afterwards
init_isdir(isdir) == IF ~isdir THEN TRUE ELSE isdir

(***************************************************************************)
(* Inputs: formats, documents, outputs, asset directories found at start.  *)
(***************************************************************************)
FmtLatex ==
    [defines |-> AbstractNames \cup {"_svg_lines"},
     header |-> << <<"\\documentclass">>, <<"\\begin">> >>,
     footer |-> << <<"\\end">> >>,
     convert_type |-> "unicode", extension |-> "tex"]
FmtBase ==
    [defines |-> {}, header |-> <<>>, footer |-> <<>>,
     convert_type |-> "unicode", extension |-> ""]
FmtBytes ==
    [defines |-> AbstractNames, header |-> <<>>, footer |-> <<>>,
     convert_type |-> "str", extension |-> "py"]
Formats == {FmtLatex, FmtBytes, FmtBase}

Payload ==
    [k \in {"output_type", "text", "png", "svg", "jpg", "foo"} |->
        CASE k = "output_type" -> <<"display_data">>
          [] k = "text" -> <<"hello">>
          [] k = "png" -> <<"aGk=">>
          [] k = "svg" -> <<"<svg/>">>
          [] k = "jpg" -> <<"a">>
          [] k = "foo" -> <<"x">>]

DisplayData(keys) ==
    Output("display_data", [i \in 1..Len(keys) |-> KV(keys[i], Payload[keys[i]])])

\* the display-data outputs the renderer is called on directly, each with
\* its keys in the order the mapping yields them
KeySeqs ==
    {<<"output_type", "text">>,
     <<"png", "output_type">>,
     <<"output_type", "svg">>,
     <<"output_type", "jpg">>,
     <<"output_type", "foo">>,
     <<"foo", "png", "output_type">>,
     <<"foo", "text", "output_type">>,
     <<"png", "foo", "output_type">>,
     <<"png", "text", "output_type", "svg">>}

Outputs == {DisplayData(ks) : ks \in KeySeqs}

CellAlphabet ==
    {Cell("markdown", <<"m", "files/", NL, "n">>, <<>>),
     Cell("foo", <<"?">>, <<>>),
     Cell("unknown_display", <<"?">>, <<>>),
     Cell("code", <<"c">>, <<DisplayData(<<"png", "output_type">>)>>)}

CellSeqs == UNION {[1..n -> CellAlphabet] : n \in 0..MaxCells}

\* a document: two worksheets, the cells split evenly between them
Worksheets(cs) ==
    <<SubSeq(cs, 1, Len(cs) \div 2), SubSeq(cs, (Len(cs) \div 2) + 1, Len(cs))>>

Docs == {Worksheets(cs) : cs \in CellSeqs}

InFiles ==
    {[ok |-> TRUE, nb |-> d] : d \in Docs} \cup {[ok |-> FALSE, nb |-> <<>>]}

Separators == {<<NL>>, <<"-", NL>>}

NoDir == [exists |-> FALSE, files |-> <<>>]
PreDirs ==
    {NoDir,
     [exists |-> TRUE, files |-> <<>>],
     [exists |-> TRUE, files |-> (files_dir \o FigName(0, "png")) :> <<"old">>]}

(***************************************************************************)
(* The state machine.                                                      *)
(***************************************************************************)
NoNode == Output("", <<>>)
Op(name, sep, node) == [name |-> name, sep |-> sep, node |-> node]

Env(fault) ==
    [fc |-> figures_counter, files |-> files, trace |-> <<>>, err |-> "none",
     nfig |-> 0, fault |-> fault, fignames |-> extracted, doc |-> nb,
     hasnb |-> hasnb, output |-> output, outfile |-> outfile]

Commit(e) ==
    /\ e.fc <= MaxFigures
    /\ figures_counter' = e.fc
    /\ files' = e.files
    /\ trace' = e.trace
    /\ err' = e.err
    /\ extracted' = e.fignames
    /\ nb' = e.doc
    /\ hasnb' = e.hasnb
    /\ output' = e.output
    /\ outfile' = e.outfile
    /\ UNCHANGED <<phase, fmt, infile, preDir, dirExists>>

\* a call that returned a text, and one that returned a list of lines
Done(r) == ret' = r.val /\ Commit(r.e)
LinesDone(r) == ret' = Join(<<NL>>, r.val) /\ buffer' = r.val /\ Commit(r.e)

InitCommon ==
    /\ phase = "new"
    /\ fmt \in Formats
    /\ dirExists = preDir.exists
    /\ files = preDir.files
    /\ hasnb = FALSE
    /\ nb = <<>>
    /\ figures_counter = 0
    /\ output = [type |-> "unicode", text |-> <<>>]
    /\ outfile = [exists |-> FALSE, text |-> <<>>]
    /\ op = Op("none", <<>>, NoNode)
    /\ err = "none"
    /\ ret = <<>>
    /\ buffer = <<>>
    /\ trace = <<>>
    /\ extracted = <<>>
    /\ rerun = "n/a"

Init == preDir = NoDir /\ infile \in InFiles /\ InitCommon

__init__ ==
    /\ phase = "new"
    /\ phase' = "live"
    /\ dirExists' = init_isdir(dirExists)
    /\ op' = Op("__init__", <<>>, NoNode)
    /\ err' = "none"
    /\ ret' = <<>>
    /\ buffer' = <<>>
    /\ trace' = <<>>
    /\ rerun' = "n/a"
    /\ UNCHANGED <<fmt, infile, preDir, hasnb, nb, figures_counter, output,
                   files, outfile, extracted>>

__del__ ==
    /\ phase = "live"
    /\ phase' = "dead"
    /\ dirExists' = del_isdir(dirExists, DOMAIN files)
    /\ op' = Op("__del__", <<>>, NoNode)
    /\ err' = "none"
    /\ ret' = <<>>
    /\ buffer' = <<>>
    /\ trace' = <<>>
    /\ rerun' = "n/a"
    /\ UNCHANGED <<fmt, infile, preDir, hasnb, nb, figures_counter, output,
                   files, outfile, extracted>>

Read ==
    /\ phase = "live"
    /\ op' = Op("read", <<>>, NoNode)
    /\ ret' = <<>>
    /\ buffer' = <<>>
    /\ rerun' = "n/a"
    /\ Commit(read(infile, Env(NoFault)))

ConvertDone(sep, r) ==
    LET again == op.name = "convert" /\ op.sep = sep /\ err = "none"
                 /\ r.e.err = "none"
    IN  /\ ret' = r.val.text
        /\ buffer' = r.val.body
        /\ rerun' = IF ~again THEN "n/a"
                    ELSE IF r.val.text = ret THEN "same" ELSE "differ"
        /\ Commit(r.e)

Convert(sep) ==
    /\ phase = "live"
    /\ op' = Op("convert", sep, NoNode)
    /\ \E fault \in Faults : ConvertDone(sep, convert(fmt, sep, Env(fault)))

RenderDone(r) ==
    LET again == op.name = "render" /\ err = "none" /\ r.e.err = "none"
        same == /\ r.val = ret
                /\ r.e.output = output
                /\ r.e.outfile = outfile
                /\ r.e.files = files
                /\ r.e.fc = figures_counter
    IN  /\ ret' = r.val
        /\ buffer' = <<>>
        /\ rerun' = IF ~again THEN "n/a" ELSE IF same THEN "same" ELSE "differ"
        /\ Commit(r.e)

Render ==
    /\ phase = "live"
    /\ op' = Op("render", <<>>, NoNode)
    /\ \E fault \in Faults, sfault \in {"none", "open"} :
          /\ sfault = "open" => fault = NoFault
          /\ RenderDone(render(fmt, infile, sfault, Env(fault)))

Save ==
    /\ phase = "live"
    /\ op' = Op("save", <<>>, NoNode)
    /\ buffer' = <<>>
    /\ rerun' = "n/a"
    /\ \E sfault \in {"none", "open"} : Done(save(fmt, sfault, Env(NoFault)))

RenderDisplayData(outp) ==
    /\ phase = "live"
    /\ op' = Op("render_display_data", <<>>, outp)
    /\ rerun' = "n/a"
    /\ \E fault \in Faults :
          LinesDone(render_display_data(fmt, outp, Env(fault)))

Next ==
    \/ __init__
    \/ __del__
    \/ Read
    \/ \E sep \in Separators : Convert(sep)
    \/ Render
    \/ Save

Spec == Init /\ [][Next]_vars

\* a session whose renderers are called directly on display-data outputs
InitDisplay ==
    /\ preDir \in PreDirs
    /\ infile = [ok |-> TRUE, nb |-> Worksheets(<<>>)]
    /\ InitCommon

NextDisplay ==
    \/ __init__
    \/ __del__
    \/ \E outp \in Outputs : RenderDisplayData(outp)

SpecDisplay == InitDisplay /\ [][NextDisplay]_vars

(***************************************************************************)
(* What the claims speak of, read off the history of the last operation.   *)
(***************************************************************************)
Events(tr, ev) == {i \in DOMAIN tr : tr[i].ev = ev}
Named(tr, ev, name) == {i \in Events(tr, ev) : tr[i].name = name}
Calls(tr, name) == Named(tr, "call", name)

KeysOf(node) == {node.data[i].key : i \in DOMAIN node.data}
ImageKeys(node) == KeysOf(node) \cap ImageTags
OtherKeys(node) == (KeysOf(node) \ ImageTags) \ {"output_type"}
UnknownKeys(F, node) ==
    {k \in OtherKeys(node) : ("render_display_format_" \o k) \notin Attrs(F)}

\* the format supplies every renderer the base class leaves abstract
IsConcrete(F) == AbstractNames \subseteq F.defines

\* the last call was cut short by a figure file that could not be written
\* (a file-system fault or an ill-formed payload), not by the code
ExtractionFailed(tr, ex) ==
    /\ Events(tr, "_new_figure") # {}
    /\ ex # <<>>
    /\ ~ex[Len(ex)].ok

NMade == Cardinality({i \in DOMAIN extracted : extracted[i].made})
NOk == Cardinality({i \in DOMAIN extracted : extracted[i].ok})

KnownKinds == {"heading", "code", "markdown", "raw"}

\* the stretch of the trace that belongs to the cell marked at i
NextMarks(i) == {j \in Events(trace, "cell") : j > i}
SegEnd(i) ==
    IF NextMarks(i) = {} THEN Len(trace)
    ELSE (CHOOSE j \in NextMarks(i) : \A k \in NextMarks(i) : j <= k) - 1
Segment(i) == (i + 1)..SegEnd(i)

(***************************************************************************)
(* C1: an unknown output-format tag is not an error.  Whenever             *)
(* render_display_data is called, with a format that supplies              *)
(* _unknown_lines, on an output that holds a tag that is no image tag, is  *)
(* not output_type and has no render_display_format_<tag>, and no figure   *)
(* file fails, the call completes without raising, every such tag goes     *)
(* through render_unknown_display to _unknown_lines, and one warning is    *)
(* emitted per such tag.                                                   *)
(***************************************************************************)
C1_UnknownTagRecovered ==
    (/\ op.name = "render_display_data"
     /\ "_unknown_lines" \in fmt.defines
     /\ UnknownKeys(fmt, op.node) # {}
     /\ ~ExtractionFailed(trace, extracted))
    => /\ err = "none"
       /\ \A k \in UnknownKeys(fmt, op.node) :
             Cardinality(Named(trace, "dispatch_display_format", k)) = 1
       /\ Cardinality(Events(trace, "warning"))
             = Cardinality(UnknownKeys(fmt, op.node))
       /\ Cardinality(Calls(trace, "_unknown_lines"))
             = Cardinality(UnknownKeys(fmt, op.node))

(***************************************************************************)
(* C2: for every cell that main_body reaches whose kind is none of         *)
(* heading, code, markdown, raw, with a format that supplies               *)
(* _unknown_lines: rendering the cell does not raise, render_unknown is    *)
(* called exactly once for it and exactly one warning is emitted for it.   *)
(***************************************************************************)
C2_UnknownCellFallback ==
    (op.name = "convert" /\ "_unknown_lines" \in fmt.defines)
    => \A i \in Events(trace, "cell") :
          trace[i].name \notin KnownKinds
          => /\ Cardinality(Calls(trace, "render_unknown") \cap Segment(i)) = 1
             /\ Cardinality(Events(trace, "warning") \cap Segment(i)) = 1
             /\ NextMarks(i) = {} => err = "none"

(***************************************************************************)
(* C3, as the specification states it: after teardown the asset directory  *)
(* does not exist if the session extracted no figure, whatever the         *)
(* directory held at session start, and exists with exactly n files if     *)
(* the session extracted n >= 1 figures.                                   *)
(***************************************************************************)
C3_CleanupAsStated ==
    phase = "dead"
    => /\ NOk = 0 => ~dirExists
       /\ NOk >= 1 => dirExists /\ Cardinality(DOMAIN files) = NOk

(***************************************************************************)
(* C3, amended: for a session that found the asset directory absent or     *)
(* empty, after teardown the directory does not exist if no _new_figure    *)
(* call created a file, and otherwise exists and holds exactly one file    *)
(* per _new_figure call that created one (the n extracted figures, plus    *)
(* any file whose write failed after it was created).  A directory that    *)
(* held files at session start is still there after teardown, with those   *)
(* files.                                                                  *)
(***************************************************************************)
C3_Cleanup ==
    phase = "dead"
    => /\ DOMAIN preDir.files = {}
          => /\ NMade = 0 => ~dirExists
             /\ NMade >= 1 => dirExists /\ Cardinality(DOMAIN files) = NMade
             /\ NOk <= NMade
       /\ DOMAIN preDir.files # {}
          => dirExists /\ DOMAIN preDir.files \subseteq DOMAIN files

\* a session that started without the directory, extracted, and was torn down
C3_Witness ==
    /\ phase = "dead"
    /\ ~preDir.exists
    /\ NOk >= 1
    /\ dirExists
    /\ Cardinality(DOMAIN files) = NOk

(***************************************************************************)
(* C8: for a display-data output that holds an image tag, rendered by a    *)
(* concrete format with no figure file failing, render_display_data makes  *)
(* for each image tag exactly one figure extraction, immediately followed  *)
(* by exactly one image-inclusion call on the path the extraction          *)
(* returned, the inclusion being _<tag>_lines if the format defines it and *)
(* _img_lines otherwise; a single-png output in a fresh session leaves     *)
(* one asset file and the figure counter at 1.                             *)
(***************************************************************************)
C8_ImageTagsExtracted ==
    (/\ op.name = "render_display_data"
     /\ IsConcrete(fmt)
     /\ ImageKeys(op.node) # {}
     /\ ~ExtractionFailed(trace, extracted))
    => /\ \A k \in ImageKeys(op.node) :
             /\ Cardinality(Named(trace, "_new_figure", k)) = 1
             /\ \A i \in Named(trace, "_new_figure", k) :
                   /\ i < Len(trace)
                   /\ trace[i + 1] =
                         Ev("call", getattr(fmt, "_" \o k \o "_lines", "_img_lines"),
                            trace[i].arg)
                   /\ Cardinality({j \in Events(trace, "call") :
                                      trace[j].arg = trace[i].arg}) = 1
       /\ (KeysOf(op.node) = {"png", "output_type"} /\ Len(extracted) = 1
           /\ DOMAIN preDir.files = {})
          => figures_counter = 1 /\ Cardinality(DOMAIN files) = 1

(***************************************************************************)
(* C9: for a display-data output rendered by a concrete format with no     *)
(* figure file failing, output_type is never passed to                     *)
(* dispatch_display_format, an output without image tag causes no figure   *)
(* extraction, and every tag that is neither an image tag nor output_type  *)
(* gets exactly one dispatch_display_format lookup.                        *)
(***************************************************************************)
C9_OutputTypeSkipped ==
    (/\ op.name = "render_display_data"
     /\ IsConcrete(fmt)
     /\ ~ExtractionFailed(trace, extracted))
    => /\ Named(trace, "dispatch_display_format", "output_type") = {}
       /\ ImageKeys(op.node) = {} => Events(trace, "_new_figure") = {}
       /\ \A k \in OtherKeys(op.node) :
             Cardinality(Named(trace, "dispatch_display_format", k)) = 1

(***************************************************************************)
(* C4, as the specification states it: convert called twice in a row with  *)
(* the same separator, both calls returning, returns the same text.        *)
(***************************************************************************)
C4_DeterministicAsStated == op.name = "convert" => rerun # "differ"

(***************************************************************************)
(* C4, amended: convert called twice in a row with the same separator      *)
(* returns the same text unless the second call extracted a figure,        *)
(* whose name carries the advanced figure counter.                         *)
(***************************************************************************)
C4_Deterministic ==
    (op.name = "convert" /\ rerun = "differ")
    => Events(trace, "_new_figure") # {}

\* a second convert of a document with a markdown cell returned the same text
C4_Witness ==
    /\ op.name = "convert"
    /\ rerun = "same"
    /\ Events(trace, "cell") # {}
    /\ Named(trace, "cell", "markdown") # {}
    /\ Events(trace, "_new_figure") = {}

(***************************************************************************)
(* C5: the figure counter equals the number of _new_figure calls of the    *)
(* session, every call of an operation adds exactly 1 per _new_figure call *)
(* it makes, so the counter never decreases, no two calls of the session   *)
(* produce the same file name, a file a call of this session created is    *)
(* never written again, and no file is ever removed.                       *)
(***************************************************************************)
C5_Names ==
    /\ Len(extracted) = figures_counter
    /\ \A i, j \in DOMAIN extracted :
          i # j => extracted[i].path # extracted[j].path

C5_Step ==
    /\ figures_counter' =
          figures_counter + Cardinality(Events(trace', "_new_figure"))
    /\ Len(extracted') = Len(extracted) + Cardinality(Events(trace', "_new_figure"))
    /\ DOMAIN files \subseteq DOMAIN files'
    /\ \A i \in DOMAIN extracted :
          /\ extracted'[i] = extracted[i]
          /\ extracted[i].made => files'[extracted[i].path] = files[extracted[i].path]

C5_CounterAndNames == [](C5_Names) /\ [][C5_Step]_vars

\* a second convert extracted the session's second figure
C5_Witness ==
    /\ op.name = "convert"
    /\ rerun = "differ"
    /\ figures_counter = 2
    /\ Cardinality(DOMAIN files) = 2

(***************************************************************************)
(* C6: the text convert(S) returns is the header lines, then the lines got *)
(* from joining each cell's rendered lines with "\n", joining the cells    *)
(* with S in worksheet-then-cell order and splitting on "\n", then the     *)
(* footer lines, all joined with "\n"; each cell is rendered once, and no  *)
(* element of main_body's buffer holds a newline.                          *)
(***************************************************************************)
\* the texts of ss one after the other
RECURSIVE CatFirst(_, _)
CatFirst(ss, n) == IF n = 0 THEN <<>> ELSE CatFirst(ss, n - 1) \o ss[n]

\* the texts of ss with sep between neighbours
Interleaved(ss, sep) ==
    CatFirst([i \in 1..Len(ss) |-> IF i = 1 THEN ss[1] ELSE sep \o ss[i]], Len(ss))

\* the rendered lines of the last call, cell by cell
RECURSIVE CellGroups(_, _)
CellGroups(i, acc) ==
    IF i > Len(trace) THEN acc
    ELSE IF trace[i].ev = "cell" THEN CellGroups(i + 1, Append(acc, <<>>))
    ELSE IF trace[i].ev = "line"
      THEN CellGroups(i + 1, [acc EXCEPT ![Len(acc)] = Append(@, trace[i].arg)])
    ELSE CellGroups(i + 1, acc)

RenderedCells == CellGroups(1, <<>>)
CellStrings == [i \in 1..Len(RenderedCells) |-> Interleaved(RenderedCells[i], <<NL>>)]

\* the cell kinds of the document, worksheet by worksheet
DocKinds == CatFirst([w \in 1..Len(nb) |-> [i \in 1..Len(nb[w]) |-> nb[w][i].type]],
                     Len(nb))
MarkedKinds ==
    LET RECURSIVE kinds(_)
        kinds(i) == IF i = 0 THEN <<>>
                    ELSE IF trace[i].ev = "cell"
                      THEN Append(kinds(i - 1), trace[i].name)
                    ELSE kinds(i - 1)
    IN  kinds(Len(trace))

NoNewline(t) == \A j \in DOMAIN t : t[j] # NL

C6_ConvertText ==
    (op.name = "convert" /\ err = "none")
    => /\ MarkedKinds = DocKinds
       /\ \A i \in DOMAIN buffer : NoNewline(buffer[i])
       /\ Interleaved(buffer, <<NL>>) = Interleaved(CellStrings, op.sep)
       /\ ret = Interleaved(fmt.header \o buffer \o fmt.footer, <<NL>>)

\* two cells joined by a separator that is not a bare newline, under a header
C6_Witness ==
    /\ op.name = "convert"
    /\ err = "none"
    /\ op.sep = <<"-", NL>>
    /\ Len(RenderedCells) = 2
    /\ fmt.header # <<>>
    /\ Len(buffer) >= 3
    /\ \E j \in DOMAIN ret : ret[j] = "-"

(***************************************************************************)
(* C7: a render call in which read, convert or the unicode check raised    *)
(* (the source does not parse, a renderer is missing or miscalled, a       *)
(* figure file fails, the text is no unicode) hands the error to its       *)
(* caller after at most one read and one convert, does not call save and   *)
(* leaves the output file as it was, and returns no path; render returns a *)
(* path only when read, convert and save all completed, and then the file  *)
(* holds the converted text.                                               *)
(***************************************************************************)
\* the error of the last call was raised by save
SaveFailed(tr, x, ex) == x = "IOError" /\ ~ExtractionFailed(tr, ex)

C7_Step ==
    (op'.name = "render" /\ err' # "none" /\ ~SaveFailed(trace', err', extracted'))
    => /\ Calls(trace', "save") = {}
       /\ outfile' = outfile
       /\ ret' = <<>>
       /\ Cardinality(Calls(trace', "read")) <= 1
       /\ Cardinality(Calls(trace', "convert")) <= 1

C7_Returned ==
    (op.name = "render" /\ ret # <<>>)
    => /\ err = "none"
       /\ hasnb
       /\ Cardinality(Calls(trace, "convert")) = 1
       /\ Cardinality(Calls(trace, "save")) = 1
       /\ ret = OutPath(fmt)
       /\ output.type = "unicode"
       /\ outfile = [exists |-> TRUE, text |-> output.text]

C7_NoPartialSuccess == [](C7_Returned) /\ [][C7_Step]_vars

\* a render whose figure file failed: the error is out, no file was saved
C7_Witness ==
    /\ op.name = "render"
    /\ err = "IOError"
    /\ ExtractionFailed(trace, extracted)
    /\ Calls(trace, "convert") # {}
    /\ ~outfile.exists

(***************************************************************************)
(* C10, as the specification states it: a render that follows a render     *)
(* reads nothing and leaves the session as the first one left it: same     *)
(* output text, same saved file, same asset files and figure counter.      *)
(***************************************************************************)
C10_IdempotentAsStated ==
    (op.name = "render" /\ rerun # "n/a")
    => rerun = "same" /\ Calls(trace, "read") = {}

(***************************************************************************)
(* C10, amended: render reads the source only when no document model is    *)
(* present, so once a read has succeeded no render reads again; and a      *)
(* render that follows a render leaves the session as the first one left   *)
(* it unless it extracted a figure, which advances the figure counter and  *)
(* adds an asset file under a new name.                                    *)
(***************************************************************************)
C10_Rerun ==
    (op.name = "render" /\ rerun # "n/a")
    => /\ Calls(trace, "read") = {}
       /\ rerun = "differ" => Events(trace, "_new_figure") # {}

C10_Step ==
    /\ hasnb => hasnb' /\ nb' # <<>>
    /\ op'.name = "render"
       => /\ Calls(trace', "read") # {} <=> ~hasnb
          /\ Cardinality(Calls(trace', "read")) <= 1

C10_Idempotent == [](C10_Rerun) /\ [][C10_Step]_vars

\* a second render of a document with cells left everything as it was
C10_Witness ==
    /\ op.name = "render"
    /\ rerun = "same"
    /\ err = "none"
    /\ Events(trace, "cell") # {}
    /\ Calls(trace, "read") = {}
    /\ outfile.exists

====
